---- MODULE Spec2Model ----
(***************************************************************************)
(* A model of get-editions.py: the word-level compact diff of one verse    *)
(* (compute_compact_diff, which folds the output of difflib.ndiff into     *)
(* change regions), the per-chapter writer (save_chapter_json) and the     *)
(* directory walk (process_book).                                          *)
(*                                                                         *)
(* A word is a sequence of characters, a line of ndiff output is the       *)
(* sequence of its characters (code, blank, word), and every Python range  *)
(* keeps Python's 0-based half-open form [lo, hi): element i of a Python   *)
(* list x is x[i+1] here.                                                  *)
(***************************************************************************)
EXTENDS Integers, Sequences, FiniteSets, TLC

\* Longest word list drawn for base and for other.
MaxLen == 3

\* The words the lists are drawn from: "ab"/"abb" are similar enough
\* (ratio 0.8) for ndiff's intraline marking, "x" resembles neither.
Words == {<<"x">>, <<"a", "b">>, <<"a", "b", "b">>}

SeqsUpTo(S, n) == UNION {[1..k -> S] : k \in 0..n}

Min(x, y) == IF x <= y THEN x ELSE y

(***************************************************************************)
(* difflib.SequenceMatcher, as ndiff uses it.  ndiff passes linejunk=None  *)
(* and charjunk=IS_CHARACTER_JUNK (blank and tab, which str.split() never  *)
(* leaves inside a word), and the automatic junk heuristic needs a second  *)
(* sequence of 200 elements or more: b2j lists every position of every     *)
(* element and bjunk is empty.                                             *)
(***************************************************************************)

\* j2len without the test a[i] == b[j] (b2j listing every j for every element).
RECURSIVE j2lenAny(_, _, _, _, _, _)
j2lenAny(a, b, alo, blo, i, j) ==
    IF i < alo \/ j < blo THEN 0
    ELSE j2lenAny(a, b, alo, blo, i - 1, j - 1) + 1

\* find_longest_match's k = newj2len[j] = j2len.get(j-1, 0) + 1: the length
\* of the common run that ends at a[i], b[j] and stays within [alo, blo).
RECURSIVE j2len(_, _, _, _, _, _)
j2len(a, b, alo, blo, i, j) ==
    IF i < alo \/ j < blo THEN 0
    ELSE IF a[i + 1] # b[j + 1] THEN 0
    ELSE j2len(a, b, alo, blo, i - 1, j - 1) + 1

\* The double loop of find_longest_match, cell n of the (i, j) grid in the
\* order the loops visit it; best is <<besti, bestj, bestsize>>.
RECURSIVE ScanBest(_, _, _, _, _, _, _, _)
ScanBest(a, b, alo, ahi, blo, bhi, n, best) ==
    IF bhi <= blo \/ n >= (ahi - alo) * (bhi - blo) THEN best
    ELSE LET i == alo + (n \div (bhi - blo))
             j == blo + (n % (bhi - blo))
             k == j2len(a, b, alo, blo, i, j)
         IN  ScanBest(a, b, alo, ahi, blo, bhi, n + 1,
                      IF k > best[3] THEN <<i - k + 1, j - k + 1, k>> ELSE best)

\* The two loops that extend the best match by equal non-junk elements.
RECURSIVE ExtendBack(_, _, _, _, _)
ExtendBack(a, b, alo, blo, m) ==
    IF m[1] > alo /\ m[2] > blo /\ a[m[1]] = b[m[2]]
    THEN ExtendBack(a, b, alo, blo, <<m[1] - 1, m[2] - 1, m[3] + 1>>)
    ELSE m

RECURSIVE ExtendFwd(_, _, _, _, _)
ExtendFwd(a, b, ahi, bhi, m) ==
    IF m[1] + m[3] < ahi /\ m[2] + m[3] < bhi /\ a[m[1] + m[3] + 1] = b[m[2] + m[3] + 1]
    THEN ExtendFwd(a, b, ahi, bhi, <<m[1], m[2], m[3] + 1>>)
    ELSE m

find_longest_match(a, b, alo, ahi, blo, bhi) ==
    ExtendFwd(a, b, ahi, bhi,
        ExtendBack(a, b, alo, blo,
            ScanBest(a, b, alo, ahi, blo, bhi, 0, <<alo, blo, 0>>)))

\* get_matching_blocks' work queue: the longest match of a range, then the
\* ranges to its left and to its right.  The blocks come out in the order
\* matching_blocks.sort() leaves them in.
RECURSIVE BlocksIn(_, _, _, _, _, _)
BlocksIn(a, b, alo, ahi, blo, bhi) ==
    LET x == find_longest_match(a, b, alo, ahi, blo, bhi)
        i == x[1]
        j == x[2]
        k == x[3]
    IN  IF k = 0 THEN <<>>
        ELSE (IF alo < i /\ blo < j THEN BlocksIn(a, b, alo, i, blo, j) ELSE <<>>)
             \o <<x>>
             \o (IF i + k < ahi /\ j + k < bhi
                 THEN BlocksIn(a, b, i + k, ahi, j + k, bhi) ELSE <<>>)

\* The loop that collapses adjacent blocks; cur is <<i1, j1, k1>>.
RECURSIVE Collapse(_, _, _)
Collapse(blocks, cur, acc) ==
    IF blocks = <<>>
    THEN IF cur[3] # 0 THEN Append(acc, cur) ELSE acc
    ELSE LET x == Head(blocks)
         IN  IF cur[1] + cur[3] = x[1] /\ cur[2] + cur[3] = x[2]
             THEN Collapse(Tail(blocks), <<cur[1], cur[2], cur[3] + x[3]>>, acc)
             ELSE Collapse(Tail(blocks), x,
                           IF cur[3] # 0 THEN Append(acc, cur) ELSE acc)

get_matching_blocks(a, b) ==
    Append(Collapse(BlocksIn(a, b, 0, Len(a), 0, Len(b)), <<0, 0, 0>>, <<>>),
           <<Len(a), Len(b), 0>>)

\* get_opcodes: <<tag, i1, i2, j1, j2>> for each gap and each block.
RECURSIVE OpcodesFrom(_, _, _)
OpcodesFrom(blocks, i, j) ==
    IF blocks = <<>> THEN <<>>
    ELSE LET ai   == Head(blocks)[1]
             bj   == Head(blocks)[2]
             size == Head(blocks)[3]
             tag  == IF i < ai /\ j < bj THEN "replace"
                     ELSE IF i < ai THEN "delete"
                     ELSE IF j < bj THEN "insert"
                     ELSE ""
         IN  (IF tag # "" THEN <<<<tag, i, ai, j, bj>>>> ELSE <<>>)
             \o (IF size # 0 THEN <<<<"equal", ai, ai + size, bj, bj + size>>>> ELSE <<>>)
             \o OpcodesFrom(Tail(blocks), ai + size, bj + size)

get_opcodes(a, b) == OpcodesFrom(get_matching_blocks(a, b), 0, 0)

\* A ratio 2.0*matches/length is kept as the fraction <<2*matches, length>>
\* (_calculate_ratio gives 1.0 for length 0).
_calculate_ratio(matches, length) ==
    IF length # 0 THEN <<2 * matches, length>> ELSE <<1, 1>>

Gt(r, s) == r[1] * s[2] > s[1] * r[2]

Lt(r, s) == r[1] * s[2] < s[1] * r[2]

RECURSIVE SumSizes(_)
SumSizes(blocks) ==
    IF blocks = <<>> THEN 0 ELSE Head(blocks)[3] + SumSizes(Tail(blocks))

ratio(a, b) == _calculate_ratio(SumSizes(get_matching_blocks(a, b)), Len(a) + Len(b))

\* quick_ratio: each element of a counts while b still has a copy to spare.
Count(s, e) == Cardinality({p \in 1..Len(s) : s[p] = e})

quick_ratio(a, b) ==
    _calculate_ratio(
        Cardinality({p \in 1..Len(a) :
                        Count(SubSeq(a, 1, p), a[p]) <= Count(b, a[p])}),
        Len(a) + Len(b))

real_quick_ratio(a, b) == _calculate_ratio(Min(Len(a), Len(b)), Len(a) + Len(b))

(***************************************************************************)
(* difflib.Differ, which ndiff(a, b) runs as Differ(None, IS_CHARACTER_JUNK)*)
(* .compare(a, b).  A line is its character sequence.                      *)
(***************************************************************************)

IsSpace(c) == c \in {" ", "\t", "\n"}

Rep(c, n) == [p \in 1..n |-> c]

RECURSIVE RStrip(_)
RStrip(s) ==
    IF s # <<>> /\ IsSpace(s[Len(s)]) THEN RStrip(SubSeq(s, 1, Len(s) - 1)) ELSE s

\* _dump: '%s %s' % (tag, x[i]) for i in range(lo, hi).
_dump(tag, x, lo, hi) == [p \in 1..(hi - lo) |-> <<tag, " ">> \o x[lo + p]]

\* _plain_replace yielding only its "+" lines.
_plain_replaceAddsOnly(a, alo, ahi, b, blo, bhi) == _dump("+", b, blo, bhi)

_plain_replace(a, alo, ahi, b, blo, bhi) ==
    IF bhi - blo < ahi - alo
    THEN _dump("+", b, blo, bhi) \o _dump("-", a, alo, ahi)
    ELSE _dump("-", a, alo, ahi) \o _dump("+", b, blo, bhi)

_keep_original_ws(s, tag_s) ==
    [p \in 1..Min(Len(s), Len(tag_s)) |->
        IF tag_s[p] = " " /\ IsSpace(s[p]) THEN s[p] ELSE tag_s[p]]

_qformat(aline, bline, atags, btags) ==
    LET at == RStrip(_keep_original_ws(aline, atags))
        bt == RStrip(_keep_original_ws(bline, btags))
    IN  <<<<"-", " ">> \o aline>>
        \o (IF at # <<>> THEN <<<<"?", " ">> \o at \o <<"\n">>>> ELSE <<>>)
        \o <<<<"+", " ">> \o bline>>
        \o (IF bt # <<>> THEN <<<<"?", " ">> \o bt \o <<"\n">>>> ELSE <<>>)

\* The tag strings _fancy_replace builds from the opcodes of the synch pair.
RECURSIVE ATags(_)
ATags(ops) ==
    IF ops = <<>> THEN <<>>
    ELSE LET op == Head(ops)
             la == op[3] - op[2]
         IN  (IF op[1] = "replace" THEN Rep("^", la)
              ELSE IF op[1] = "delete" THEN Rep("-", la)
              ELSE IF op[1] = "equal" THEN Rep(" ", la)
              ELSE <<>>)
             \o ATags(Tail(ops))

RECURSIVE BTags(_)
BTags(ops) ==
    IF ops = <<>> THEN <<>>
    ELSE LET op == Head(ops)
             lb == op[5] - op[4]
         IN  (IF op[1] = "replace" THEN Rep("^", lb)
              ELSE IF op[1] = "insert" THEN Rep("+", lb)
              ELSE IF op[1] = "equal" THEN Rep(" ", lb)
              ELSE <<>>)
             \o BTags(Tail(ops))

\* Python's None for eqi, eqj and for best_i, best_j before they are set.
NoIndex == -1

\* _fancy_replace's search for the closest pair: j outer, i inner.
RECURSIVE ScanPairs(_, _, _, _, _, _, _, _)
ScanPairs(a, alo, ahi, b, blo, bhi, n, s) ==
    IF n >= (bhi - blo) * (ahi - alo) THEN s
    ELSE LET j  == blo + (n \div (ahi - alo))
             i  == alo + (n % (ahi - alo))
             ai == a[i + 1]
             bj == b[j + 1]
         IN  ScanPairs(a, alo, ahi, b, blo, bhi, n + 1,
                IF ai = bj
                THEN (IF s.eqi = NoIndex THEN [s EXCEPT !.eqi = i, !.eqj = j] ELSE s)
                ELSE IF /\ Gt(real_quick_ratio(ai, bj), s.best_ratio)
                        /\ Gt(quick_ratio(ai, bj), s.best_ratio)
                        /\ Gt(ratio(ai, bj), s.best_ratio)
                     THEN [s EXCEPT !.best_ratio = ratio(ai, bj),
                                    !.best_i = i, !.best_j = j]
                     ELSE s)

RECURSIVE _fancy_replace(_, _, _, _, _, _)
RECURSIVE _fancy_helper(_, _, _, _, _, _)

_fancy_replace(a, alo, ahi, b, blo, bhi) ==
    LET s == ScanPairs(a, alo, ahi, b, blo, bhi, 0,
                       [best_ratio |-> <<74, 100>>, best_i |-> NoIndex,
                        best_j |-> NoIndex, eqi |-> NoIndex, eqj |-> NoIndex])
        close  == ~Lt(s.best_ratio, <<75, 100>>)
        best_i == IF close THEN s.best_i ELSE s.eqi
        best_j == IF close THEN s.best_j ELSE s.eqj
        aelt   == a[best_i + 1]
        belt   == b[best_j + 1]
    IN  IF ~close /\ s.eqi = NoIndex
        THEN _plain_replace(a, alo, ahi, b, blo, bhi)
        ELSE _fancy_helper(a, alo, best_i, b, blo, best_j)
             \o (IF close
                 THEN _qformat(aelt, belt, ATags(get_opcodes(aelt, belt)),
                               BTags(get_opcodes(aelt, belt)))
                 ELSE <<<<" ", " ">> \o aelt>>)
             \o _fancy_helper(a, best_i + 1, ahi, b, best_j + 1, bhi)

_fancy_helper(a, alo, ahi, b, blo, bhi) ==
    IF alo < ahi
    THEN IF blo < bhi THEN _fancy_replace(a, alo, ahi, b, blo, bhi)
         ELSE _dump("-", a, alo, ahi)
    ELSE IF blo < bhi THEN _dump("+", b, blo, bhi)
    ELSE <<>>

\* Differ.compare: the lines of every opcode, in order.
RECURSIVE CompareOps(_, _, _)
CompareOps(a, b, ops) ==
    IF ops = <<>> THEN <<>>
    ELSE LET op == Head(ops)
         IN  (IF op[1] = "replace" THEN _fancy_replace(a, op[2], op[3], b, op[4], op[5])
              ELSE IF op[1] = "delete" THEN _dump("-", a, op[2], op[3])
              ELSE IF op[1] = "insert" THEN _dump("+", b, op[4], op[5])
              ELSE _dump(" ", a, op[2], op[3]))
             \o CompareOps(a, b, Tail(ops))

ndiff(a, b) == CompareOps(a, b, get_opcodes(a, b))

(***************************************************************************)
(* compute_compact_diff.  The fold state st is [index, current, diff_ops]; *)
(* current is <<>> for None and <<region>> for an open region.             *)
(***************************************************************************)

\* str.split() of a text whose only whitespace is the blank: the maximal
\* runs of non-blank characters; word is the run being read.
RECURSIVE SplitFrom(_, _, _)
SplitFrom(text, p, word) ==
    IF p > Len(text)
    THEN IF word # <<>> THEN <<word>> ELSE <<>>
    ELSE IF IsSpace(text[p])
         THEN (IF word # <<>> THEN <<word>> ELSE <<>>) \o SplitFrom(text, p + 1, <<>>)
         ELSE SplitFrom(text, p + 1, Append(word, text[p]))

split(text) == SplitFrom(text, 1, <<>>)

NewRegion(index) == [index |-> index, remove |-> <<>>, add |-> <<>>]

Start == [index |-> 0, current |-> <<>>, diff_ops |-> <<>>]

\* OnKeep without index += 1.
OnKeepNoAdvance(st) ==
    [index    |-> st.index,
     current  |-> <<>>,
     diff_ops |-> IF st.current # <<>> THEN Append(st.diff_ops, st.current[1])
                  ELSE st.diff_ops]

\* code == " ": flush the open region, then index += 1.
OnKeep(st) ==
    [index    |-> st.index + 1,
     current  |-> <<>>,
     diff_ops |-> IF st.current # <<>> THEN Append(st.diff_ops, st.current[1])
                  ELSE st.diff_ops]

\* OnRemove closing the open region and opening one of its own for each word.
OnRemoveUngrouped(st, word) ==
    [index    |-> st.index + 1,
     current  |-> <<[NewRegion(st.index) EXCEPT !.remove = <<word>>]>>,
     diff_ops |-> IF st.current # <<>> THEN Append(st.diff_ops, st.current[1])
                  ELSE st.diff_ops]

\* code == "-": open a region if none is open, append to remove, index += 1.
OnRemove(st, word) ==
    LET cur == IF st.current = <<>> THEN NewRegion(st.index) ELSE st.current[1]
    IN  [index    |-> st.index + 1,
         current  |-> <<[cur EXCEPT !.remove = Append(cur.remove, word)]>>,
         diff_ops |-> st.diff_ops]

\* OnAdd with index += 1.
OnAddAdvancing(st, word) ==
    LET cur == IF st.current = <<>> THEN NewRegion(st.index) ELSE st.current[1]
    IN  [index    |-> st.index + 1,
         current  |-> <<[cur EXCEPT !.add = Append(cur.add, word)]>>,
         diff_ops |-> st.diff_ops]

\* code == "+": open a region if none is open, append to add.
OnAdd(st, word) ==
    LET cur == IF st.current = <<>> THEN NewRegion(st.index) ELSE st.current[1]
    IN  [index    |-> st.index,
         current  |-> <<[cur EXCEPT !.add = Append(cur.add, word)]>>,
         diff_ops |-> st.diff_ops]

\* OnOther closing the open region, as a Keep line does.
OnOtherFlushing(st) ==
    [index    |-> st.index,
     current  |-> <<>>,
     diff_ops |-> IF st.current # <<>> THEN Append(st.diff_ops, st.current[1])
                  ELSE st.diff_ops]

\* Any other code (the "?" lines): no branch of the if/elif chain is taken.
OnOther(st) == st

\* Flush that appends nothing.
FlushNothing(st) == st

\* Flush without the test of current.
FlushAlways(st) ==
    [st EXCEPT !.current = <<>>,
               !.diff_ops = Append(st.diff_ops,
                                   IF st.current # <<>> THEN st.current[1]
                                   ELSE NewRegion(st.index))]

\* After the loop: flush any pending region.
Flush(st) ==
    IF st.current # <<>>
    THEN [st EXCEPT !.current = <<>>, !.diff_ops = Append(st.diff_ops, st.current[1])]
    ELSE st

\* One pass of the loop body: code = token[0], word = token[2:].
Step(st, token) ==
    LET code == token[1]
        word == SubSeq(token, 3, Len(token))
    IN  IF code = " " THEN OnKeep(st)
        ELSE IF code = "-" THEN OnRemove(st, word)
        ELSE IF code = "+" THEN OnAdd(st, word)
        ELSE OnOther(st)

RECURSIVE Fold(_, _)
Fold(tokens, st) ==
    IF tokens = <<>> THEN st ELSE Fold(Tail(tokens), Step(st, Head(tokens)))

compute_compact_diff(base_text, other_text) ==
    Flush(Fold(ndiff(split(base_text), split(other_text)), Start)).diff_ops

(***************************************************************************)
(* The TSV side: clean_word, join_words, load_chapter_tsv.  A character    *)
(* outside ASCII is written by its code point ("U+2334" is the open box,   *)
(* "U+2205" the empty set, "U+2014" the em dash).                          *)
(***************************************************************************)

VERSIONS == <<"1830", "1837", "1840", "1841", "1879", "1920", "1981", "2013">>

VersionSet == {VERSIONS[k] : k \in 1..Len(VERSIONS)}

RECURSIVE LStrip(_)
LStrip(s) == IF s # <<>> /\ IsSpace(s[1]) THEN LStrip(Tail(s)) ELSE s

strip(s) == RStrip(LStrip(s))

\* A cell is [none |-> TRUE] for Python's None, else [none |-> FALSE, s |-> text].
clean_word(word) ==
    IF word.none THEN <<>>
    ELSE LET w == strip(word.s)
         IN  IF w \in {<<"U+2334">>, <<>>, <<"U+2205">>} THEN <<>> ELSE w

Punctuation == {<<",">>, <<".">>, <<";">>, <<":">>, <<"?">>, <<"!">>, <<"U+2014">>}

RECURSIVE JoinFrom(_, _)
JoinFrom(words, text) ==
    IF words = <<>> THEN text
    ELSE LET w == Head(words)
         IN  JoinFrom(Tail(words),
                      IF w = <<>> THEN text
                      ELSE IF w \in Punctuation THEN RStrip(text) \o w \o <<" ">>
                      ELSE text \o w \o <<" ">>)

join_words(words) == strip(JoinFrom(words, <<>>))

\* A file is [readable, has_citation, rows]; a row is [Citation, cells], cells
\* one cell per version.  open() raises for an unreadable file and
\* row["Citation"] raises KeyError in the first row of a file whose header has
\* no Citation column.
LoadRaises(file) == ~file.readable \/ (file.rows # <<>> /\ ~file.has_citation)

RECURSIVE CleanColumn(_, _, _)
CleanColumn(rows, citation, version) ==
    IF rows = <<>> THEN <<>>
    ELSE (IF strip(Head(rows).Citation) = citation
          THEN <<clean_word(Head(rows).cells[version])>> ELSE <<>>)
         \o CleanColumn(Tail(rows), citation, version)

load_chapter_tsv(file) ==
    [citation \in {strip(file.rows[k].Citation) : k \in 1..Len(file.rows)} |->
        [version \in VersionSet |->
            join_words(CleanColumn(file.rows, citation, version))]]

VARIABLES
    base_text, other_text,   \* the arguments of compute_compact_diff
    base_words, other_words, \* their split()
    tokens,                  \* the lines ndiff yields
    pos,                     \* the next line of tokens the loop reads (1-based)
    index, current, diff_ops,
    pc,                      \* "loop" | "done" | "idle"
    walk,                    \* the files os.walk yields, in order
    fpos,                    \* the file of walk process_book is at (1-based)
    book, chapter, verses,   \* the arguments of save_chapter_json
    vpos,                    \* the entry of VERSIONS its loop is at (1-based)
    output,                  \* the files written: <<book, chapter, name>> -> content
    bpc                      \* "walk" | "save_base" | "save_versions" | "saved"
                             \* | "raised" | "complete" | "idle"

diffVars == <<base_text, other_text, base_words, other_words, tokens, pos,
              index, current, diff_ops, pc>>

bookVars == <<walk, fpos, book, chapter, verses, vpos, output, bpc>>

vars == <<diffVars, bookVars>>

\* The empty mapping: no file written, no verse loaded.
Empty == [x \in {} |-> <<>>]

\* No directory walk is under way.
BookIdle ==
    /\ walk = <<>>
    /\ fpos = 1
    /\ book = ""
    /\ chapter = ""
    /\ verses = Empty
    /\ vpos = 1
    /\ output = Empty
    /\ bpc = "idle"

St == [index |-> index, current |-> current, diff_ops |-> diff_ops]

SetSt(st) ==
    /\ index' = st.index
    /\ current' = st.current
    /\ diff_ops' = st.diff_ops

\* The texts join_words makes of up to MaxLen words.
Texts == {join_words(ws) : ws \in SeqsUpTo(Words, MaxLen)}

\* Lines 64-68 have run: the texts are split, ndiff is set up, index = 0.
Init ==
    /\ base_text \in Texts
    /\ other_text \in Texts
    /\ base_words = split(base_text)
    /\ other_words = split(other_text)
    /\ tokens = ndiff(base_words, other_words)
    /\ pos = 1
    /\ index = 0
    /\ current = <<>>
    /\ diff_ops = <<>>
    /\ pc = "loop"
    /\ BookIdle

Code == tokens[pos][1]

Word == SubSeq(tokens[pos], 3, Len(tokens[pos]))

InLoop == pc = "loop" /\ pos <= Len(tokens)

Advance ==
    /\ pos' = pos + 1
    /\ UNCHANGED <<base_text, other_text, base_words, other_words, tokens, pc>>
    /\ UNCHANGED bookVars

LineKeep == InLoop /\ Code = " " /\ SetSt(OnKeep(St)) /\ Advance

LineRemove == InLoop /\ Code = "-" /\ SetSt(OnRemove(St, Word)) /\ Advance

LineAdd == InLoop /\ Code = "+" /\ SetSt(OnAdd(St, Word)) /\ Advance

LineOther == InLoop /\ Code \notin {" ", "-", "+"} /\ SetSt(OnOther(St)) /\ Advance

\* The loop is exhausted: the final flush and the return.
Return ==
    /\ pc = "loop"
    /\ pos > Len(tokens)
    /\ SetSt(Flush(St))
    /\ pc' = "done"
    /\ UNCHANGED <<base_text, other_text, base_words, other_words, tokens, pos>>
    /\ UNCHANGED bookVars

Next == LineKeep \/ LineRemove \/ LineAdd \/ LineOther \/ Return

Spec == Init /\ [][Next]_vars

(***************************************************************************)
(* Properties of compute_compact_diff.                                     *)
(***************************************************************************)

Max(x, y) == IF x >= y THEN x ELSE y

\* The length of a longest common subsequence of two word lists.
RECURSIVE LCS(_, _)
LCS(a, b) ==
    IF a = <<>> \/ b = <<>> THEN 0
    ELSE IF Head(a) = Head(b) THEN 1 + LCS(Tail(a), Tail(b))
    ELSE Max(LCS(Tail(a), b), LCS(a, Tail(b)))

EditDistance == Len(base_words) + Len(other_words) - 2 * LCS(base_words, other_words)

\* The words of the script lines whose code is in codes, in script order.
RECURSIVE WordsOf(_, _)
WordsOf(script, codes) ==
    IF script = <<>> THEN <<>>
    ELSE (IF Head(script)[1] \in codes
          THEN <<SubSeq(Head(script), 3, Len(Head(script)))>> ELSE <<>>)
         \o WordsOf(Tail(script), codes)

CountLines(codes) == Cardinality({p \in 1..Len(tokens) : tokens[p][1] \in codes})

ScriptEdits == CountLines({"-", "+"})

RECURSIVE RegionEdits(_)
RegionEdits(regions) ==
    IF regions = <<>> THEN 0
    ELSE Len(Head(regions).remove) + Len(Head(regions).add) + RegionEdits(Tail(regions))

\* Apply regions to base in list order; at is the first base position (0-based)
\* not yet copied or deleted.
RECURSIVE ApplyRegions(_, _, _)
ApplyRegions(regions, base, at) ==
    IF regions = <<>> THEN SubSeq(base, at + 1, Len(base))
    ELSE LET r == Head(regions)
         IN  SubSeq(base, at + 1, r.index) \o r.add
             \o ApplyRegions(Tail(regions), base, r.index + Len(r.remove))

\* C1: applying the returned regions to base, in ascending index order (at each
\* region delete len(remove) base words from position index and put add in
\* their place), yields exactly other.
C1_RegionsRebuildOther ==
    pc = "done" => ApplyRegions(diff_ops, base_words, 0) = other_words

C1_Witness ==
    /\ pc = "done"
    /\ Len(diff_ops) >= 2
    /\ \E k \in 1..Len(diff_ops) : diff_ops[k].remove # <<>> /\ diff_ops[k].add # <<>>
    /\ \E k \in 1..Len(diff_ops) : diff_ops[k].remove = <<>>

\* C2: the edit script replays: its Keep and Remove words, in script order, are
\* base, and its Keep and Insert words, in script order, are other.
C2_ScriptReplays ==
    /\ WordsOf(tokens, {" ", "-"}) = base_words
    /\ WordsOf(tokens, {" ", "+"}) = other_words

C2_Witness ==
    /\ pos > Len(tokens)
    /\ \A c \in {" ", "-", "+", "?"} : CountLines({c}) > 0
    /\ base_words # other_words

BaseConsumed(p) == Cardinality({q \in 1..(p - 1) : tokens[q][1] \in {" ", "-"}})

\* Line p is the first Remove or Insert since the last Keep (or the start).
RegionStart(p) ==
    /\ tokens[p][1] \in {"-", "+"}
    /\ \A q \in 1..(p - 1) :
          tokens[q][1] \in {"-", "+"} => \E m \in (q + 1)..(p - 1) : tokens[m][1] = " "

Starts == {p \in 1..Len(tokens) : RegionStart(p)}

NthStart(k) == CHOOSE p \in Starts : Cardinality({q \in Starts : q < p}) = k - 1

\* C4: index counts the Keep and Remove lines consumed so far (Insert lines
\* never advance it); each returned region's index is that count at the
\* region's first line, its remove list is the base slice
\* base[index .. index+len(remove)-1], and an insert-only region sits at the
\* base position right after the last kept word.
C4_IndexIsBasePosition ==
    /\ index = BaseConsumed(pos)
    /\ pc = "done" =>
          /\ Len(diff_ops) = Cardinality(Starts)
          /\ \A k \in 1..Len(diff_ops) :
                LET r == diff_ops[k]
                    p == NthStart(k)
                IN  /\ r.index = BaseConsumed(p)
                    /\ r.remove = SubSeq(base_words, r.index + 1, r.index + Len(r.remove))
                    /\ r.remove = <<>> =>
                          \/ r.index = 0 /\ \A q \in 1..(p - 1) : tokens[q][1] # " "
                          \/ \E q \in 1..(p - 1) :
                                tokens[q][1] = " " /\ BaseConsumed(q) = r.index - 1

C4_Witness ==
    /\ pc = "done"
    /\ \E k \in 1..Len(diff_ops) :
          diff_ops[k].remove = <<>> /\ diff_ops[k].index > 0
    /\ \E k \in 1..Len(diff_ops) :
          Len(diff_ops[k].remove) >= 2 /\ diff_ops[k].add # <<>>

\* The regions so far: the closed ones, then the open one.
AllRegions == diff_ops \o current

\* C5: regions are in strictly ascending index order and consecutive regions
\* r, s are separated by at least one kept base word:
\* s.index >= r.index + len(r.remove) + 1.
C5_RegionsSeparated ==
    \A k \in 1..(Len(AllRegions) - 1) :
        AllRegions[k + 1].index >= AllRegions[k].index + Len(AllRegions[k].remove) + 1

C5_Witness ==
    /\ pc = "done"
    /\ Len(diff_ops) >= 2
    /\ diff_ops[2].index = diff_ops[1].index + Len(diff_ops[1].remove) + 1
    /\ diff_ops[1].remove # <<>>
    /\ diff_ops[2].remove # <<>>

\* C6: empty input never fails: base empty and other non-empty gives the
\* single region {index: 0, remove: [], add: other} (a script of Inserts),
\* other empty and base non-empty gives {index: 0, remove: base, add: []}
\* (a script of Removes), both empty gives the empty list.
C6_EmptyInputs ==
    /\ base_words = <<>> => \A p \in 1..Len(tokens) : tokens[p][1] = "+"
    /\ other_words = <<>> => \A p \in 1..Len(tokens) : tokens[p][1] = "-"
    /\ pc = "done" =>
          /\ base_words = <<>> /\ other_words # <<>> =>
                diff_ops = <<[index |-> 0, remove |-> <<>>, add |-> other_words]>>
          /\ other_words = <<>> /\ base_words # <<>> =>
                diff_ops = <<[index |-> 0, remove |-> base_words, add |-> <<>>]>>
          /\ base_words = <<>> /\ other_words = <<>> => diff_ops = <<>>

C6_Witness ==
    /\ pc = "done"
    /\ base_words = <<>>
    /\ Len(other_words) >= 2
    /\ Len(diff_ops) = 1

\* C7: diffing a word list against itself gives the empty list: the script is
\* all Keeps, no region is ever opened, and the final flush appends nothing.
C7_SelfDiffIsEmpty ==
    base_words = other_words =>
        /\ \A p \in 1..Len(tokens) : tokens[p][1] = " "
        /\ current = <<>>
        /\ diff_ops = <<>>

C7_Witness ==
    /\ pc = "done"
    /\ base_words = other_words
    /\ Len(base_words) >= 3
    /\ base_words[1] = base_words[3]
    /\ base_words[1] # base_words[2]
    /\ diff_ops = <<>>

\* The script without the lines whose code is none of " ", "-", "+".
HintFree(script) == SelectSeq(script, LAMBDA t : t[1] \in {" ", "-", "+"})

\* C10: a line whose code is none of " ", "-", "+" leaves index, the open
\* region and the output list untouched, and the result equals the fold of the
\* script with those lines removed.
C10_HintLinesAreSkipped ==
    /\ [][InLoop /\ Code \notin {" ", "-", "+"} =>
            index' = index /\ current' = current /\ diff_ops' = diff_ops]_vars
    /\ [](pc = "done" => diff_ops = Flush(Fold(HintFree(tokens), Start)).diff_ops)

C10_Witness ==
    /\ pc = "loop"
    /\ pos > 1
    /\ pos <= Len(tokens)
    /\ tokens[pos - 1][1] = "?"
    /\ tokens[pos][1] = "+"
    /\ current # <<>>
    /\ current[1].remove # <<>>

(***************************************************************************)
(* save_chapter_json and process_book.                                     *)
(***************************************************************************)

\* A file name: base.json, or f"{version}.json".
JsonName(stem) == [stem |-> stem, ext |-> ".json"]

Write(out, path, content) ==
    [q \in DOMAIN out \cup {path} |-> IF q = path THEN content ELSE out[q]]

\* base = {v: data["1830"] for v, data in verses.items()}
BaseTexts(vs) == [v \in DOMAIN vs |-> vs[v]["1830"]]

Index(version) == CHOOSE k \in 1..Len(VERSIONS) : VERSIONS[k] = version

\* VersionDiffs against the version before, not against 1830.
VersionDiffsAgainstPrevious(vs, version) ==
    LET prev == VERSIONS[Max(Index(version) - 1, 1)]
    IN  [v \in {c \in DOMAIN vs :
                    compute_compact_diff(vs[c][prev], vs[c][version]) # <<>>} |->
            compute_compact_diff(vs[v][prev], vs[v][version])]

\* The body of the loop over VERSIONS for one version: diffs holds the verses
\* whose diff against the 1830 text is not empty.
VersionDiffs(vs, version) ==
    [v \in {c \in DOMAIN vs :
                compute_compact_diff(vs[c]["1830"], vs[c][version]) # <<>>} |->
        compute_compact_diff(vs[v]["1830"], vs[v][version])]

\* Lines 105-108: base.json is written, the loop over VERSIONS starts.
SaveBase ==
    /\ bpc = "save_base"
    /\ output' = Write(output, <<book, chapter, JsonName("base")>>, BaseTexts(verses))
    /\ vpos' = 1
    /\ bpc' = "save_versions"
    /\ UNCHANGED <<walk, fpos, book, chapter, verses>>
    /\ UNCHANGED diffVars

\* if version == "1830": continue
SkipBaseVersion ==
    /\ bpc = "save_versions"
    /\ vpos <= Len(VERSIONS)
    /\ VERSIONS[vpos] = "1830"
    /\ vpos' = vpos + 1
    /\ UNCHANGED <<walk, fpos, book, chapter, verses, output, bpc>>
    /\ UNCHANGED diffVars

SaveVersion ==
    /\ bpc = "save_versions"
    /\ vpos <= Len(VERSIONS)
    /\ VERSIONS[vpos] # "1830"
    /\ output' = Write(output, <<book, chapter, JsonName(VERSIONS[vpos])>>,
                       VersionDiffs(verses, VERSIONS[vpos]))
    /\ vpos' = vpos + 1
    /\ UNCHANGED <<walk, fpos, book, chapter, verses, bpc>>
    /\ UNCHANGED diffVars

\* save_chapter_json returns.
ChapterReturn ==
    /\ bpc = "save_versions"
    /\ vpos > Len(VERSIONS)
    /\ bpc' = "saved"
    /\ UNCHANGED <<walk, fpos, book, chapter, verses, vpos, output>>
    /\ UNCHANGED diffVars

\* A walked file is [dirs, stem, ext, data]: its directories below input_dir,
\* its name split at the extension, and what the file holds.
IsTsv(file) == file.ext = ".tsv"

\* rel_path split at "/" has the directories and the file name.
BookOf(file) == IF Len(file.dirs) + 1 = 2 THEN file.dirs[1] ELSE "Unknown"

ChapterOf(file) == file.stem

\* A .tsv file that loads: print, load_chapter_tsv, enter save_chapter_json.
VisitFile ==
    /\ bpc = "walk"
    /\ fpos <= Len(walk)
    /\ IsTsv(walk[fpos])
    /\ ~LoadRaises(walk[fpos].data)
    /\ book' = BookOf(walk[fpos])
    /\ chapter' = ChapterOf(walk[fpos])
    /\ verses' = load_chapter_tsv(walk[fpos].data)
    /\ bpc' = "save_base"
    /\ UNCHANGED <<walk, fpos, vpos, output>>
    /\ UNCHANGED diffVars

\* A .tsv file that does not load: the exception leaves load_chapter_tsv and,
\* process_book having no handler, process_book.
VisitFileRaises ==
    /\ bpc = "walk"
    /\ fpos <= Len(walk)
    /\ IsTsv(walk[fpos])
    /\ LoadRaises(walk[fpos].data)
    /\ bpc' = "raised"
    /\ UNCHANGED <<walk, fpos, book, chapter, verses, vpos, output>>
    /\ UNCHANGED diffVars

\* A file whose name does not end in .tsv.
SkipFile ==
    /\ bpc = "walk"
    /\ fpos <= Len(walk)
    /\ ~IsTsv(walk[fpos])
    /\ fpos' = fpos + 1
    /\ UNCHANGED <<walk, book, chapter, verses, vpos, output, bpc>>
    /\ UNCHANGED diffVars

\* save_chapter_json has returned: on to the next file.
NextFile ==
    /\ bpc = "saved"
    /\ fpos <= Len(walk)
    /\ fpos' = fpos + 1
    /\ bpc' = "walk"
    /\ UNCHANGED <<walk, book, chapter, verses, vpos, output>>
    /\ UNCHANGED diffVars

\* The walk is exhausted: "Processing complete!".
Finish ==
    /\ bpc = "walk"
    /\ fpos > Len(walk)
    /\ bpc' = "complete"
    /\ UNCHANGED <<walk, fpos, book, chapter, verses, vpos, output>>
    /\ UNCHANGED diffVars

\* compute_compact_diff is not under way on its own.
DiffIdle ==
    /\ base_text = <<>>
    /\ other_text = <<>>
    /\ base_words = <<>>
    /\ other_words = <<>>
    /\ tokens = <<>>
    /\ pos = 1
    /\ index = 0
    /\ current = <<>>
    /\ diff_ops = <<>>
    /\ pc = "idle"

(***************************************************************************)
(* save_chapter_json on its own, entered with a chapter of two verses.     *)
(***************************************************************************)

\* The most editions at which the text of one verse changes.
MaxChanges == 1

VerseTexts == {join_words(<<<<"x">>, <<"a", "b">>>>),
               join_words(<<<<"x">>, <<"a", "b", "b">>, <<"x">>>>)}

Citations == {<<"1", ":", "1">>, <<"1", ":", "2">>}

Changes(h) ==
    Cardinality({k \in 2..Len(VERSIONS) : h[VERSIONS[k]] # h[VERSIONS[k - 1]]})

Histories == {h \in [VersionSet -> VerseTexts] : Changes(h) <= MaxChanges}

InitChapter ==
    /\ DiffIdle
    /\ walk = <<>>
    /\ fpos = 1
    /\ book = "Enos"
    /\ chapter = "1"
    /\ verses \in [Citations -> Histories]
    /\ vpos = 1
    /\ output = Empty
    /\ bpc = "save_base"

NextChapter == SaveBase \/ SkipBaseVersion \/ SaveVersion \/ ChapterReturn

SpecChapter == InitChapter /\ [][NextChapter]_vars

(***************************************************************************)
(* process_book over a walk of sample files.                               *)
(***************************************************************************)

\* The most files one walk holds.
MaxFiles == 2

Txt(s) == [none |-> FALSE, s |-> s]

NoneCell == [none |-> TRUE, s |-> <<>>]

AllEditions(cell) == [v \in VersionSet |-> cell]

FromEdition(version, before, after) ==
    [v \in VersionSet |-> IF Index(v) < Index(version) THEN before ELSE after]

Row(citation, cells) == [Citation |-> citation, cells |-> cells]

RowsA ==
    <<Row(<<"1", ":", "1">>, AllEditions(Txt(<<"x">>))),
      Row(<<"1", ":", "1", " ">>,
          FromEdition("1840", Txt(<<"a", "b">>), Txt(<<"a", "b", "b", " ">>))),
      Row(<<"1", ":", "1">>, AllEditions(Txt(<<",">>)))>>

RowsB ==
    RowsA \o
    <<Row(<<"1", ":", "2">>, AllEditions(Txt(<<"x">>))),
      Row(<<"1", ":", "2">>, FromEdition("1981", Txt(<<"U+2205">>), Txt(<<"a", "b">>))),
      Row(<<"1", ":", "2">>, FromEdition("2013", Txt(<<"U+2334">>), NoneCell))>>

FileData ==
    {[readable |-> FALSE, has_citation |-> TRUE, rows |-> RowsA],
     [readable |-> TRUE, has_citation |-> FALSE, rows |-> RowsA],
     [readable |-> TRUE, has_citation |-> FALSE, rows |-> <<>>],
     [readable |-> TRUE, has_citation |-> TRUE, rows |-> RowsA],
     [readable |-> TRUE, has_citation |-> TRUE, rows |-> RowsB]}

FilePaths ==
    {[dirs |-> <<"Enos">>, stem |-> "1", ext |-> ".tsv"],
     [dirs |-> <<"Enos">>, stem |-> "2", ext |-> ".tsv"],
     [dirs |-> <<>>, stem |-> "3", ext |-> ".tsv"],
     [dirs |-> <<"Enos">>, stem |-> "notes", ext |-> ".txt"]}

Files ==
    {[dirs |-> p.dirs, stem |-> p.stem, ext |-> p.ext, data |-> d] :
        p \in FilePaths, d \in FileData}

PathOf(file) == <<file.dirs, file.stem, file.ext>>

\* os.walk yields each path once.
Walks ==
    {w \in SeqsUpTo(Files, MaxFiles) :
        \A i, j \in 1..Len(w) : i # j => PathOf(w[i]) # PathOf(w[j])}

InitBook ==
    /\ DiffIdle
    /\ walk \in Walks
    /\ fpos = 1
    /\ book = ""
    /\ chapter = ""
    /\ verses = Empty
    /\ vpos = 1
    /\ output = Empty
    /\ bpc = "walk"

NextBook ==
    \/ VisitFile
    \/ VisitFileRaises
    \/ SkipFile
    \/ SaveBase
    \/ SkipBaseVersion
    \/ SaveVersion
    \/ ChapterReturn
    \/ NextFile
    \/ Finish

SpecBook == InitBook /\ [][NextBook]_vars

\* C8: every version but the base has its diff map, keyed by exactly the
\* verses whose compute_compact_diff(1830 text, text of that version) is not
\* empty, each holding exactly that result; the diff is against the 1830 text
\* only, and the base has no diff map.
C8_DiffMapsAgainstBase ==
    /\ <<book, chapter, JsonName("1830")>> \notin DOMAIN output
    /\ \A version \in VersionSet \ {"1830"} :
          LET path == <<book, chapter, JsonName(version)>>
          IN  /\ bpc = "saved" => path \in DOMAIN output
              /\ path \in DOMAIN output =>
                    \A v \in DOMAIN verses :
                       LET d == compute_compact_diff(verses[v]["1830"], verses[v][version])
                       IN  /\ v \in DOMAIN output[path] <=> d # <<>>
                           /\ v \in DOMAIN output[path] => output[path][v] = d

C8_Witness ==
    /\ bpc = "saved"
    /\ \E v, w \in DOMAIN verses :
          /\ v \in DOMAIN output[<<book, chapter, JsonName("2013")>>]
          /\ w \notin DOMAIN output[<<book, chapter, JsonName("2013")>>]
          /\ verses[v]["2013"] = verses[v]["1981"]
          /\ verses[v]["1837"] = verses[v]["1830"]

\* The .tsv files of the walk that load.
Loadable == {k \in 1..Len(walk) : IsTsv(walk[k]) /\ ~LoadRaises(walk[k].data)}

\* C9: when loading one chapter file fails, every other chapter file of the
\* walk is still processed and its output written.
C9_FaultDoesNotAbortBatch ==
    bpc \in {"raised", "complete"} =>
        \A k \in Loadable :
            <<BookOf(walk[k]), ChapterOf(walk[k]), JsonName("base")>> \in DOMAIN output

====
